---- MODULE Spec2Model ----
(***************************************************************************)
(* Model of the rl-replay-viewer graphics bring-up layer                   *)
(* (src/rendering/mod.rs) and of its application loop (src/main.rs).       *)
(*                                                                         *)
(* Device::new is modelled stage by stage (extension negotiation, instance *)
(* creation, physical device selection, queue family lookup, logical       *)
(* device creation, swapchain loader), the winit callbacks of App as one   *)
(* action each.  Raw pointers are records that remember the storage they   *)
(* point into, so that a pointer into a dropped CString is visible.        *)
(***************************************************************************)
EXTENDS Integers, Sequences, FiniteSets, TLC

\* ------------------------------------------------------------------------
\* Bounds of the model
\* ------------------------------------------------------------------------
MaxCaller == 2      \* longest caller-supplied extension list
MaxDevices == 3     \* most physical devices enumerated
MaxFamilies == 2    \* most queue families of one physical device
MaxResumes == 2     \* most resume signals delivered to the application

\* ------------------------------------------------------------------------
\* Values
\* ------------------------------------------------------------------------
\* ash::khr::swapchain::NAME
SwapchainName == "VK_KHR_swapchain"
\* a caller name with an interior NUL byte (CString::from_str refuses it)
NulName == "ext_nul"
\* names a caller may pass to Device::new as instance extensions: one no
\* other list holds, one the platform also reports, one with a NUL
InstanceCallerNames == {"ext_a", "ext_b", NulName}
\* names a caller may pass to Device::new as device extensions: one no
\* other list holds, the one device_required holds, one with a NUL
DeviceCallerNames == {"ext_a", SwapchainName, NulName}
\* names ash_window::enumerate_required_extensions may report
PlatformNames == {"ext_b", "ext_c"}
\* what reading through a dangling pointer may yield besides the old bytes
Garbage == "garbage"

DISCRETE_GPU == "DISCRETE_GPU"
INTEGRATED_GPU == "INTEGRATED_GPU"
VIRTUAL_GPU == "VIRTUAL_GPU"
CPU == "CPU"
DeviceTypes == {DISCRETE_GPU, INTEGRATED_GPU, VIRTUAL_GPU, CPU}

GRAPHICS == "GRAPHICS"
TRANSFER == "TRANSFER"
QueueFlagSets == {{TRANSFER}, {GRAPHICS, TRANSFER}}

VkErrors == {"ERROR_INITIALIZATION_FAILED", "ERROR_EXTENSION_NOT_PRESENT"}

SeqsUpTo(S, n) == UNION {[1..k -> S] : k \in 0..n}
Range(s) == {s[i] : i \in 1..Len(s)}
Injective(s) == \A i, j \in 1..Len(s) : s[i] = s[j] => i = j

InstanceCallerLists == SeqsUpTo(InstanceCallerNames, MaxCaller)
DeviceCallerLists == SeqsUpTo(DeviceCallerNames, MaxCaller)
RequiredLists == {s \in SeqsUpTo(PlatformNames, Cardinality(PlatformNames)) :
                    Len(s) >= 1 /\ Injective(s)}
DeviceLists == SeqsUpTo(DeviceTypes, MaxDevices)
FamilyLists == SeqsUpTo(QueueFlagSets, MaxFamilies)

\* Option<T>
None == [some |-> FALSE, val |-> 0]
Some(x) == [some |-> TRUE, val |-> x]

\* ------------------------------------------------------------------------
\* VulkanError and its From conversions (mod.rs 14-53)
\* ------------------------------------------------------------------------
FromLoadingError(e) == [variant |-> "Loading", inner |-> e]
FromVkResult(e) == [variant |-> "Error", inner |-> e]
FromNulError(e) == [variant |-> "NulError", inner |-> e]
FromHandleError(e) == [variant |-> "WindowHandleError", inner |-> e]
FromOsError(e) == [variant |-> "OsError", inner |-> e]
NoSuitableDevice == [variant |-> "NoSuitableDevice", inner |-> "-"]
UnableToFindQueueFamily == [variant |-> "UnableToFindQueueFamily", inner |-> "-"]
NoError == [variant |-> "-", inner |-> "-"]

\* Result<_, VulkanError> of a call, and the ways a call can end otherwise
Ok(v) == [kind |-> "Ok", val |-> v, err |-> NoError]
Err(e) == [kind |-> "Err", val |-> 0, err |-> e]
Panic(msg) == [kind |-> "Panic", val |-> 0, err |-> [variant |-> "-", inner |-> msg]]
Pending == [kind |-> "Pending", val |-> 0, err |-> NoError]

\* ------------------------------------------------------------------------
\* Device::pick_between and Device::pick_physical (mod.rs 167-214)
\* A PhysicalDevice handle is the 1-based position in the enumeration;
\* get_physical_device_properties(dev).device_type is all[dev].
\* ------------------------------------------------------------------------
\* pick_between with DISCRETE preferred over VIRTUAL only
pick_between_discrete_over_virtual_only(devs, this, other) ==
    IF ~other.some THEN Some(this)
    ELSE LET dev == other.val
             t == devs[this]
             o == devs[dev]
         IN  IF t = INTEGRATED_GPU /\ o = VIRTUAL_GPU THEN Some(this)
             ELSE IF t = DISCRETE_GPU /\ o = VIRTUAL_GPU THEN Some(this)
                  ELSE Some(dev)

\* pick_between with a later candidate of equal type replacing the best
pick_between_last_of_equal_wins(devs, this, other) ==
    IF ~other.some THEN Some(this)
    ELSE LET dev == other.val
             t == devs[this]
             o == devs[dev]
         IN  IF t = INTEGRATED_GPU /\ o = VIRTUAL_GPU THEN Some(this)
             ELSE IF t = DISCRETE_GPU /\ (o = VIRTUAL_GPU \/ o = INTEGRATED_GPU)
                  THEN Some(this)
                  ELSE IF t = o THEN Some(this) ELSE Some(dev)

pick_between(devs, this, other) ==
    IF ~other.some THEN Some(this)
    ELSE LET dev == other.val
             t == devs[this]
             o == devs[dev]
         IN  IF t = INTEGRATED_GPU /\ o = VIRTUAL_GPU THEN Some(this)
             ELSE IF t = DISCRETE_GPU /\ (o = VIRTUAL_GPU \/ o = INTEGRATED_GPU)
                  THEN Some(this)
                  ELSE Some(dev)

\* the loop of pick_physical without the device type filter
RECURSIVE pick_loop_unfiltered(_, _, _)
pick_loop_unfiltered(devs, i, selected) ==
    IF i > Len(devs) THEN selected
    ELSE pick_loop_unfiltered(devs, i + 1, pick_between(devs, i, selected))

\* the loop of pick_physical with an unsupported device clearing the best
RECURSIVE pick_loop_skipped_clears(_, _, _)
pick_loop_skipped_clears(devs, i, selected) ==
    IF i > Len(devs) THEN selected
    ELSE pick_loop_skipped_clears(devs, i + 1,
                   IF devs[i] \in {VIRTUAL_GPU, DISCRETE_GPU, INTEGRATED_GPU}
                   THEN pick_between(devs, i, selected)
                   ELSE None)

RECURSIVE pick_loop(_, _, _)
pick_loop(devs, i, selected) ==
    IF i > Len(devs) THEN selected
    ELSE pick_loop(devs, i + 1,
                   IF devs[i] \in {VIRTUAL_GPU, DISCRETE_GPU, INTEGRATED_GPU}
                   THEN pick_between(devs, i, selected)
                   ELSE selected)

pick_physical(devs) ==
    LET selected == pick_loop(devs, 1, None)
    IN  IF selected.some THEN Ok(selected.val) ELSE Err(NoSuitableDevice)

\* ------------------------------------------------------------------------
\* Device::find_queue_family_index (mod.rs 244-257); indices are 0-based
\* ------------------------------------------------------------------------
RECURSIVE find_loop(_, _)
find_loop(fams, index) ==
    IF index >= Len(fams) THEN None
    ELSE IF GRAPHICS \in fams[index + 1] THEN Some(index)
         ELSE find_loop(fams, index + 1)

\* find_queue_family_index starting its scan at the second family
find_queue_family_index_from_second(fams) == find_loop(fams, 1)

find_queue_family_index(fams) == find_loop(fams, 0)

\* ------------------------------------------------------------------------
\* Device::efficiently_handle_extensions (mod.rs 125-165)
\* A *const c_char is [name, storage]: the bytes it was taken from and
\* whether they live in static storage or in a CString that was dropped at
\* the end of the statement that took the pointer (mod.rs 149-152).
\* ------------------------------------------------------------------------
StaticPtr(n) == [name |-> n, storage |-> "static"]
TempCStringPtr(n) == [name |-> n, storage |-> "dropped"]

\* CString::from_str(s): Err on an interior NUL
CStringFromStr(s) == IF s = NulName THEN Err(FromNulError(s)) ELSE Ok(s)

\* the append closure (mod.rs 145-161) writing a destination slice of
\* length n: Panic when a name is refused (.expect) or an index is out of
\* bounds, the written slice otherwise
append(n, src1, src2) ==
    LET bad == {i \in 1..Len(src1) : i > n \/ CStringFromStr(src1[i]).kind = "Err"}
        first == CHOOSE i \in bad : \A j \in bad : i <= j
    IN  IF bad # {}
        THEN (IF CStringFromStr(src1[first]).kind = "Err"
              THEN Panic("CString error")
              ELSE Panic("index out of bounds"))
        ELSE IF n > Len(src1) /\ Len(src2) = 0
        THEN Panic("index out of bounds")
        ELSE Ok([i \in 1..n |-> IF i <= Len(src1)
                                THEN TempCStringPtr(CStringFromStr(src1[i]).val)
                                ELSE StaticPtr(src2[i - Len(src1)])])

\* handle: display_handle() outcome; required: Result of
\* enumerate_required_extensions; the value is <<instance_ext, device_ext>>
efficiently_handle_extensions(handle, required, inst, dev) ==
    IF handle.kind = "Err" THEN Err(FromHandleError(handle.inner))
    ELSE IF required.kind = "Err" THEN Err(FromVkResult(required.inner))
    ELSE LET instance_required == required.val
             device_required == <<SwapchainName>>
             l_inst_cp == Len(inst) + Len(instance_required)
             l_dev_cp == Len(dev) + Len(device_required)
         IN  IF l_inst_cp = 0
             THEN Panic("attempt to subtract with overflow")
             ELSE LET a1 == append(l_inst_cp - 1, inst, instance_required)
                      a2 == append(l_dev_cp - 1, dev, device_required)
                  IN  IF a1.kind # "Ok" THEN a1
                      ELSE IF a2.kind # "Ok" THEN a2
                      ELSE Ok(<<a1.val, a2.val>>)


\* ------------------------------------------------------------------------
\* State
\* ------------------------------------------------------------------------
VARIABLES
    pc,                   \* position of the program
    extensions_instance,  \* Device::new argument (mod.rs 85)
    extensions_device,    \* Device::new argument (mod.rs 86)
    instance_required,    \* names the platform reported (mod.rs 130-131)
    instance_ext,         \* Box<[*const c_char]> of Device::new (mod.rs 88)
    device_ext,           \* Box<[*const c_char]> of Device::new (mod.rs 88)
    all,                  \* devices enumerated by pick_physical (mod.rs 169),
                          \* a local of pick_physical: empty outside a call
    physical,             \* Option of the selected PhysicalDevice
    families,             \* queue families of the selected device (mod.rs 248),
                          \* kept until the next stage has run
    queue_family_index,   \* Option<u32> found by find_queue_family_index
    instance,             \* ash::Instance handle: "none", "live", "destroyed"
    logical,              \* ash::Device handle: "none", "live", "destroyed"
    swapchain_loader,     \* swapchain::Device table: "none", "bound"
    view,                 \* App.view: Option<WindowView>
    window,               \* winit Window: "none", "live", "destroyed"
    surface,              \* vk::SurfaceKHR: "none", "live", "destroyed"
    swapchain,            \* SwapchainKHR: "none", "live", "destroyed"
    result,               \* how Device::new ended
    instance_request,     \* extension names create_instance read
    device_request,       \* the DeviceCreateInfo create_device received
    stages,               \* stages of Device::new that ran, in order
    failed,               \* the stage that failed and the error it raised
    log,                  \* create and destroy calls made so far, in order
    event,                \* the callback winit delivered last
    resumes,              \* resume signals delivered so far
    view_result           \* how the last WindowView::new ended ("-": not called)

vars == <<pc, extensions_instance, extensions_device, instance_required,
          instance_ext, device_ext,
          all, physical, families, queue_family_index, instance, logical,
          swapchain_loader, view, window, surface, swapchain, result,
          instance_request, device_request, stages, failed, log, event,
                   resumes, view_result>>

new_locals == <<instance_ext, device_ext, all, physical, families,
                queue_family_index>>
new_args == <<extensions_instance, extensions_device, instance_required>>
device_handles == <<instance, logical, swapchain_loader>>
view_handles == <<view, window, surface, swapchain>>
requests == <<instance_request, device_request>>

NoFailure == [stage |-> "-", raised |-> "-"]
NoRequest == [queue_create_infos |-> <<>>, extensions |-> <<>>, features |-> "default"]

\* main.rs 66-69: main has built the EventLoop and calls App::new, which
\* calls Device::new with the configured extension lists (main.rs 21 passes
\* vec![], the empty list, which both sets of lists contain)
Init ==
    /\ pc = "efficiently_handle_extensions"
    /\ extensions_instance \in InstanceCallerLists
    /\ extensions_device \in DeviceCallerLists
    /\ instance_required = <<>>
    /\ instance_ext = <<>>
    /\ device_ext = <<>>
    /\ all = <<>>
    /\ physical = None
    /\ families = <<>>
    /\ queue_family_index = None
    /\ instance = "none"
    /\ logical = "none"
    /\ swapchain_loader = "none"
    /\ view = "None"
    /\ window = "none"
    /\ surface = "none"
    /\ swapchain = "none"
    /\ result = Pending
    /\ instance_request = <<>>
    /\ device_request = NoRequest
    /\ stages = <<>>
    /\ failed = NoFailure
    /\ log = <<>>
    /\ event = "-"
    /\ resumes = 0
    /\ view_result = "-"

\* ------------------------------------------------------------------------
\* Leaving Device::new (mod.rs 83-122)
\* ------------------------------------------------------------------------
\* The locals of Device::new go out of scope.  instance_ext and device_ext
\* are dropped as boxes: device_ext was built by Box::from_raw on a pointer
\* into the middle of the one allocation (mod.rs 141-143, 164), so freeing a
\* non-empty device_ext is undefined: the process goes on or dies there.
\* (An empty boxed slice is not deallocated at all.)
DropOutcomes(dev_box) == IF Len(dev_box) > 0 THEN {"freed", "crash"} ELSE {"freed"}

\* an early return of Device::new with Err(e): `?` (mod.rs 89, 104, 105,
\* 113) or the explicit return (mod.rs 110)
ReturnErr(stage, raised, e, dev_box) ==
    \E d \in DropOutcomes(dev_box) :
        /\ pc' = IF d = "crash" THEN "crashed" ELSE "new_returned"
        /\ result' = IF d = "crash" THEN Pending ELSE Err(e)
        /\ failed' = [stage |-> stage, raised |-> raised]
        /\ instance_ext' = <<>>
        /\ device_ext' = <<>>

\* a panic inside Device::new unwinds through App::new and main
Panicked(stage, r) ==
    /\ pc' = "panicked"
    /\ result' = r
    /\ failed' = [stage |-> stage, raised |-> r.err.inner]
    /\ instance_ext' = <<>>
    /\ device_ext' = <<>>

\* ------------------------------------------------------------------------
\* Stage 1: extension negotiation (mod.rs 88-90)
\* ------------------------------------------------------------------------
HandleResults == {[kind |-> "Ok", inner |-> "display"],
                  [kind |-> "Err", inner |-> "Unavailable"]}
RequiredResults == {[kind |-> "Ok", val |-> r, inner |-> "SUCCESS"] : r \in RequiredLists}
                   \cup {[kind |-> "Err", val |-> <<>>, inner |-> e] : e \in VkErrors}

EfficientlyHandleExtensions ==
    /\ pc = "efficiently_handle_extensions"
    /\ \E handle \in HandleResults, required \in RequiredResults :
        LET r == efficiently_handle_extensions(handle, required,
                                               extensions_instance, extensions_device)
        IN  /\ stages' = Append(stages, "extensions")
            /\ instance_required' = required.val
            /\ IF r.kind = "Ok"
               THEN /\ instance_ext' = r.val[1]
                    /\ device_ext' = r.val[2]
                    /\ pc' = "init"
                    /\ UNCHANGED <<result, failed>>
               ELSE IF r.kind = "Err"
               THEN ReturnErr("extensions", r.err.inner, r.err, <<>>)
               ELSE Panicked("extensions", r)
    /\ UNCHANGED <<extensions_instance, extensions_device, all, physical, families, queue_family_index,
                   device_handles, view_handles, requests, log, event,
                   resumes, view_result>>

\* ------------------------------------------------------------------------
\* Reading an extension list at a creation call
\* ------------------------------------------------------------------------
\* The names a callee can read through the pointers of a list: the bytes of
\* a dropped CString are whatever the allocator left there.  The debug
\* block of Device::new (mod.rs 91-103) reads the same pointers and only
\* prints them.
RECURSIVE Reads(_)
Reads(ptrs) ==
    IF Len(ptrs) = 0 THEN {<<>>}
    ELSE LET p == ptrs[1]
             heads == IF p.storage = "static" THEN {p.name} ELSE {p.name, Garbage}
         IN  {<<h>> \o t : h \in heads, t \in Reads(Tail(ptrs))}

\* what the API can answer to a creation call given the names it read
CreateOutcomes(names) ==
    IF Garbage \in Range(names) THEN {"ERROR_EXTENSION_NOT_PRESENT"}
    ELSE {"SUCCESS"} \cup VkErrors

\* ------------------------------------------------------------------------
\* Stage 2: Device::init (mod.rs 104, 216-224)
\* ------------------------------------------------------------------------
LoadResults == {"loaded", "LibraryNotFound"}

InitInstance ==
    /\ pc = "init"
    /\ stages' = Append(stages, "instance")
    /\ \E load \in LoadResults :
        IF load # "loaded"
        THEN /\ ReturnErr("instance", load, FromLoadingError(load), device_ext)
             /\ UNCHANGED <<instance, instance_request, log>>
        ELSE \E names \in Reads(instance_ext) : \E code \in CreateOutcomes(names) :
                /\ instance_request' = names
                /\ IF code = "SUCCESS"
                   THEN /\ instance' = "live"
                        /\ log' = Append(log, "create_instance")
                        /\ pc' = "pick_physical"
                        /\ UNCHANGED <<result, failed, instance_ext, device_ext>>
                   ELSE /\ ReturnErr("instance", code, FromVkResult(code), device_ext)
                        /\ UNCHANGED <<instance, log>>
    /\ UNCHANGED <<new_args, all, physical, families, queue_family_index,
                   logical, swapchain_loader, view_handles, device_request, event,
                   resumes, view_result>>


\* ------------------------------------------------------------------------
\* Stage 3: Device::pick_physical (mod.rs 105, 167-186)
\* ------------------------------------------------------------------------
EnumerateResults == {[kind |-> "Ok", val |-> d, inner |-> "SUCCESS"] : d \in DeviceLists}
                    \cup {[kind |-> "Err", val |-> <<>>, inner |-> e] : e \in VkErrors}

PickPhysical ==
    /\ pc = "pick_physical"
    /\ stages' = Append(stages, "physical")
    /\ \E enumerated \in EnumerateResults :
        IF enumerated.kind = "Err"
        THEN /\ ReturnErr("physical", enumerated.inner, FromVkResult(enumerated.inner),
                          device_ext)
             /\ UNCHANGED <<all, physical>>
        ELSE LET r == pick_physical(enumerated.val)
             IN  /\ UNCHANGED all
                 /\ IF r.kind = "Ok"
                    THEN /\ physical' = Some(r.val)
                         /\ pc' = "find_queue_family_index"
                         /\ UNCHANGED <<result, failed, instance_ext, device_ext>>
                    ELSE /\ ReturnErr("physical", r.err.variant, r.err, device_ext)
                         /\ UNCHANGED physical
    /\ UNCHANGED <<new_args, families, queue_family_index, device_handles,
                   view_handles, requests, log, event,
                   resumes, view_result>>

\* ------------------------------------------------------------------------
\* Stage 4: Device::find_queue_family_index (mod.rs 106-111, 244-257)
\* ------------------------------------------------------------------------
FindQueueFamilyIndex ==
    /\ pc = "find_queue_family_index"
    /\ stages' = Append(stages, "queue_family")
    /\ \E queue_families \in FamilyLists :
        LET r == find_queue_family_index(queue_families)
        IN  /\ families' = queue_families
            /\ IF r.some
               THEN /\ queue_family_index' = r
                    /\ pc' = "create_logical"
                    /\ UNCHANGED <<result, failed, instance_ext, device_ext>>
               ELSE /\ ReturnErr("queue_family", UnableToFindQueueFamily.variant,
                                 UnableToFindQueueFamily, device_ext)
                    /\ UNCHANGED queue_family_index
    /\ all' = <<>>
    /\ UNCHANGED <<new_args, physical, device_handles, view_handles,
                   requests, log, event,
                   resumes, view_result>>

\* ------------------------------------------------------------------------
\* Stage 5: Device::create_logical (mod.rs 112-113, 227-241)
\* ------------------------------------------------------------------------
\* vk::DeviceQueueCreateInfo::default(): every field zero
DefaultQueueCount == 0

DeviceQueueCreateInfo(index) ==
    [queue_family_index |-> index, queue_count |-> DefaultQueueCount]

DeviceCreateInfo(index, names) ==
    [queue_create_infos |-> <<DeviceQueueCreateInfo(index)>>,
     extensions |-> names,
     features |-> "default"]

CreateLogical ==
    /\ pc = "create_logical"
    /\ stages' = Append(stages, "logical")
    /\ \E names \in Reads(device_ext) : \E code \in CreateOutcomes(names) :
        /\ device_request' = DeviceCreateInfo(queue_family_index.val, names)
        /\ IF code = "SUCCESS"
           THEN /\ logical' = "live"
                /\ log' = Append(log, "create_device")
                /\ pc' = "swapchain_loader"
                /\ UNCHANGED <<result, failed, instance_ext, device_ext>>
           ELSE /\ ReturnErr("logical", code, FromVkResult(code), device_ext)
                /\ UNCHANGED <<logical, log>>
    /\ families' = <<>>
    /\ UNCHANGED <<new_args, all, physical, queue_family_index,
                   instance, swapchain_loader, view_handles, instance_request, event,
                   resumes, view_result>>

\* ------------------------------------------------------------------------
\* Stage 6: swapchain::Device::new and Ok(Self {..}) (mod.rs 114-121)
\* ------------------------------------------------------------------------
BindSwapchainLoader ==
    /\ pc = "swapchain_loader"
    /\ stages' = Append(stages, "loader")
    /\ swapchain_loader' = "bound"
    /\ \E d \in DropOutcomes(device_ext) :
        /\ pc' = IF d = "crash" THEN "crashed" ELSE "new_returned"
        /\ result' = IF d = "crash" THEN Pending ELSE Ok(0)
    /\ instance_ext' = <<>>
    /\ device_ext' = <<>>
    /\ UNCHANGED <<new_args, all, physical, families, queue_family_index,
                   instance, logical, view_handles, requests, failed, log, event,
                   resumes, view_result>>


\* ------------------------------------------------------------------------
\* App::new (main.rs 20-23)
\* ------------------------------------------------------------------------
\* .expect panics on Err and the panic unwinds main: no App was built, so
\* nothing of the Device is dropped.  On Ok the App owns the Device and the
\* arguments and locals of Device::new are gone.
\* App::new going on to run_app whatever Device::new returned
AppNew_ignoring_the_error ==
    /\ pc = "new_returned"
    /\ pc' = "run_app"
    /\ extensions_instance' = <<>>
    /\ extensions_device' = <<>>
    /\ instance_required' = <<>>
    /\ all' = <<>>
    /\ families' = <<>>
    /\ queue_family_index' = None
    /\ UNCHANGED <<instance_ext, device_ext, physical, device_handles, view_handles,
                   result, requests, stages, failed, log, event, resumes, view_result>>

AppNew ==
    /\ pc = "new_returned"
    /\ pc' = IF result.kind = "Ok" THEN "run_app" ELSE "panicked"
    /\ extensions_instance' = <<>>
    /\ extensions_device' = <<>>
    /\ instance_required' = <<>>
    /\ all' = <<>>
    /\ families' = <<>>
    /\ queue_family_index' = None
    /\ UNCHANGED <<instance_ext, device_ext, physical, device_handles, view_handles,
                   result, requests, stages, failed, log, event,
                   resumes, view_result>>

\* ------------------------------------------------------------------------
\* Dropping the App while a panic unwinds main (main.rs 14-17, 69-70)
\* ------------------------------------------------------------------------
\* Fields are dropped in declaration order: device, then view.  Drop for
\* Device (mod.rs 281-288) destroys the logical device, then the instance.
\* WindowView has no Drop: its Window is dropped, its surface and swapchain
\* handles are plain values.
\* Drop for Device destroying the instance before the logical device
DropDeviceLog_instance_first(l) == l \o <<"destroy_instance", "destroy_device">>

DropDeviceLog(l) == l \o <<"destroy_device", "destroy_instance">>

DropViewLog(l, v) == IF v = "Some" THEN Append(l, "destroy_window") ELSE l

DropApp(calls) ==
    /\ logical' = "destroyed"
    /\ instance' = "destroyed"
    /\ window' = IF window = "live" \/ "create_window" \in Range(calls)
                  THEN "destroyed" ELSE window
    /\ view' = "None"
    /\ log' = DropViewLog(DropDeviceLog(log \o calls), view)
    /\ pc' = "panicked"

\* ------------------------------------------------------------------------
\* ApplicationHandler::resumed (main.rs 31-35), WindowView::new
\* (mod.rs 70-79) and Device::link_to_window (mod.rs 261-278)
\* ------------------------------------------------------------------------
ViewOutcomes == {"Ok", "OsError", "HandleError", "SurfaceError", "SwapchainError"}

\* the calls WindowView::new makes before it ends with the outcome; a
\* window that was created is dropped again when `?` returns early
ViewCalls(o) ==
    CASE o = "Ok" -> <<"create_window", "create_surface", "create_swapchain">>
      [] o = "OsError" -> <<>>
      [] o = "HandleError" -> <<"create_window", "destroy_window">>
      [] o = "SurfaceError" -> <<"create_window", "destroy_window">>
      [] o = "SwapchainError" -> <<"create_window", "create_surface", "destroy_window">>

\* resumed constructing a WindowView also when one is bound
Resumed_always_constructs ==
    /\ pc = "run_app"
    /\ resumes < MaxResumes
    /\ resumes' = resumes + 1
    /\ event' = "resumed"
    /\ IF FALSE
       THEN UNCHANGED <<pc, device_handles, view_handles, log, view_result>>
       ELSE \E o \in ViewOutcomes :
            /\ view_result' = o
            /\ IF o = "Ok"
               THEN /\ view' = "Some"
                    /\ window' = "live"
                    /\ surface' = "live"
                    /\ swapchain' = "live"
                    /\ log' = log \o ViewCalls(o)
                    /\ UNCHANGED <<pc, device_handles>>
               ELSE /\ DropApp(ViewCalls(o))
                    /\ surface' = IF o = "SwapchainError" THEN "live" ELSE surface
                    /\ UNCHANGED <<swapchain, swapchain_loader>>
    /\ UNCHANGED <<new_args, new_locals, result, requests, stages, failed>>

Resumed ==
    /\ pc = "run_app"
    /\ resumes < MaxResumes
    /\ resumes' = resumes + 1
    /\ event' = "resumed"
    /\ IF view = "Some"
       THEN UNCHANGED <<pc, device_handles, view_handles, log, view_result>>
       ELSE \E o \in ViewOutcomes :
            /\ view_result' = o
            /\ IF o = "Ok"
               THEN /\ view' = "Some"
                    /\ window' = "live"
                    /\ surface' = "live"
                    /\ swapchain' = "live"
                    /\ log' = log \o ViewCalls(o)
                    /\ UNCHANGED <<pc, device_handles>>
               ELSE /\ DropApp(ViewCalls(o))
                    /\ surface' = IF o = "SwapchainError" THEN "live" ELSE surface
                    /\ UNCHANGED <<swapchain, swapchain_loader>>
    /\ UNCHANGED <<new_args, new_locals, result, requests, stages, failed>>

\* ------------------------------------------------------------------------
\* The callbacks that are todo!() (main.rs 27-29, 37-63)
\* ------------------------------------------------------------------------
Todo(ev) ==
    /\ pc = "run_app"
    /\ event' = ev
    /\ DropApp(<<>>)
    /\ UNCHANGED <<new_args, new_locals, swapchain_loader, surface, swapchain,
                   result, requests, stages, failed, resumes, view_result>>

WindowEvents == {"CloseRequested", "Resized", "RedrawRequested"}

NewEvents == Todo("new_events")
UserEvent == Todo("user_event")
WindowEvent == view = "Some" /\ \E e \in WindowEvents : Todo(e)
DeviceEvent == Todo("device_event")
AboutToWait == Todo("about_to_wait")
Suspended == Todo("suspended")
Exiting == Todo("exiting")
MemoryWarning == Todo("memory_warning")

\* ------------------------------------------------------------------------
\* The program
\* ------------------------------------------------------------------------
Next ==
    \/ EfficientlyHandleExtensions
    \/ InitInstance
    \/ PickPhysical
    \/ FindQueueFamilyIndex
    \/ CreateLogical
    \/ BindSwapchainLoader
    \/ AppNew
    \/ Resumed
    \/ NewEvents
    \/ UserEvent
    \/ WindowEvent
    \/ DeviceEvent
    \/ AboutToWait
    \/ Suspended
    \/ Exiting
    \/ MemoryWarning

Spec == Init /\ [][Next]_vars

\* ------------------------------------------------------------------------
\* Device::pick_physical on its own: every enumeration up to MaxDevices
\* ------------------------------------------------------------------------
InitPick ==
    /\ pc = "call_pick_physical"
    /\ extensions_instance = <<>>
    /\ extensions_device = <<>>
    /\ instance_required = <<>>
    /\ instance_ext = <<>>
    /\ device_ext = <<>>
    /\ all \in DeviceLists
    /\ physical = None
    /\ families = <<>>
    /\ queue_family_index = None
    /\ instance = "live"
    /\ logical = "none"
    /\ swapchain_loader = "none"
    /\ view = "None"
    /\ window = "none"
    /\ surface = "none"
    /\ swapchain = "none"
    /\ result = Pending
    /\ instance_request = <<>>
    /\ device_request = NoRequest
    /\ stages = <<>>
    /\ failed = NoFailure
    /\ log = <<>>
    /\ event = "-"
    /\ resumes = 0
    /\ view_result = "-"

CallPickPhysical ==
    /\ pc = "call_pick_physical"
    /\ pc' = "pick_physical_returned"
    /\ result' = pick_physical(all)
    /\ physical' = IF result'.kind = "Ok" THEN Some(result'.val) ELSE None
    /\ UNCHANGED <<new_args, instance_ext, device_ext, all, families,
                   queue_family_index, device_handles, view_handles, requests,
                   stages, failed, log, event,
                   resumes, view_result>>

NextPick == CallPickPhysical

SpecPick == InitPick /\ [][NextPick]_vars


\* ========================================================================
\* Properties
\* ========================================================================
Supported == {DISCRETE_GPU, INTEGRATED_GPU, VIRTUAL_GPU}
PickReturned == pc = "pick_physical_returned"
PickedType == all[result.val]

\* C1: for every enumeration, pick_physical returns a device of the
\* highest-ranked type present under DISCRETE > INTEGRATED > VIRTUAL: a
\* DISCRETE device whenever one is enumerated, wherever it stands, and an
\* INTEGRATED device when INTEGRATED devices but no DISCRETE ones are
\* enumerated (in particular when the list holds INTEGRATED and VIRTUAL
\* devices only).
C1_HighestRankedType ==
    PickReturned =>
        /\ (DISCRETE_GPU \in Range(all) =>
                result.kind = "Ok" /\ PickedType = DISCRETE_GPU)
        /\ (DISCRETE_GPU \notin Range(all) /\ INTEGRATED_GPU \in Range(all) =>
                result.kind = "Ok" /\ PickedType = INTEGRATED_GPU)
        /\ (Range(all) \cap Supported = {VIRTUAL_GPU} =>
                result.kind = "Ok" /\ PickedType = VIRTUAL_GPU)

\* Scenario A: [INTEGRATED, DISCRETE, VIRTUAL] selects the DISCRETE device
C1_Witness ==
    /\ PickReturned
    /\ all = <<INTEGRATED_GPU, DISCRETE_GPU, VIRTUAL_GPU>>
    /\ result.kind = "Ok"
    /\ result.val = 2

\* C2: among several devices of the returned type pick_physical returns
\* the first enumerated one; [VIRTUAL, VIRTUAL] yields the first device;
\* and pick_between keeps the current best against a candidate of equal
\* type.
C2_FirstOfEqualTypeWins ==
    PickReturned =>
        /\ (result.kind = "Ok" =>
                \A j \in 1..Len(all) : all[j] = PickedType => result.val <= j)
        /\ (all = <<VIRTUAL_GPU, VIRTUAL_GPU>> =>
                result.kind = "Ok" /\ result.val = 1)
        /\ \A this, best \in 1..Len(all) :
                all[this] = all[best] => pick_between(all, this, Some(best)) = Some(best)

\* Scenario B: [VIRTUAL, VIRTUAL] selects index 0 (the first handle)
C2_Witness ==
    /\ PickReturned
    /\ all = <<VIRTUAL_GPU, VIRTUAL_GPU>>
    /\ result.kind = "Ok"
    /\ result.val = 1

\* C3: pick_physical fails with NoSuitableDevice exactly when no
\* enumerated device is DISCRETE, INTEGRATED or VIRTUAL (the empty
\* enumeration included); otherwise it returns one of the enumerated
\* devices of a supported type.
C3_NoSuitableDevice ==
    PickReturned =>
        IF Range(all) \cap Supported = {}
        THEN result.kind = "Err" /\ result.err = NoSuitableDevice
        ELSE /\ result.kind = "Ok"
             /\ result.val \in 1..Len(all)
             /\ PickedType \in Supported

\* an enumeration of unsupported devices only ends in NoSuitableDevice
C3_Witness ==
    /\ PickReturned
    /\ all = <<CPU, CPU>>
    /\ result.kind = "Err"
    /\ result.err = NoSuitableDevice


\* ------------------------------------------------------------------------
\* Extension negotiation
\* ------------------------------------------------------------------------
Names(ptrs) == {ptrs[i].name : i \in 1..Len(ptrs)}
NameSeq(ptrs) == [i \in 1..Len(ptrs) |-> ptrs[i].name]
\* efficiently_handle_extensions has returned Ok and its lists are in scope
Negotiated == pc \in {"init", "pick_physical", "find_queue_family_index",
                      "create_logical", "swapchain_loader"}
LogicalRequested == Len(device_request.queue_create_infos) > 0

\* C4: the device extension list returned by efficiently_handle_extensions
\* and read by create_logical contains every caller device name and the
\* swapchain extension name.
C4_DeviceListComplete ==
    /\ (Negotiated =>
            Range(extensions_device) \cup {SwapchainName} \subseteq Names(device_ext))
    /\ (LogicalRequested /\ Negotiated =>
            Range(extensions_device) \cup {SwapchainName}
                \subseteq Range(device_request.extensions))

\* C5: the instance extension list returned by efficiently_handle_extensions
\* contains every caller name and every platform-mandated name; caller
\* [ext_a] with mandated [ext_b, ext_c] gives {ext_a, ext_b, ext_c}, size 3.
C5_InstanceListComplete ==
    Negotiated =>
        /\ Range(extensions_instance) \cup Range(instance_required)
                \subseteq Names(instance_ext)
        /\ (extensions_instance = <<"ext_a">> /\ instance_required = <<"ext_b", "ext_c">> =>
                Names(instance_ext) = {"ext_a", "ext_b", "ext_c"} /\ Len(instance_ext) = 3)

\* C6: each merged list holds every name once: no two entries of
\* instance_ext, and no two entries of device_ext, carry the same name.
C6_NoDuplicates ==
    Negotiated => Injective(NameSeq(instance_ext)) /\ Injective(NameSeq(device_ext))

\* C7: when Device::init is about to create the instance, and when
\* create_logical is about to create the device, no pointer of the list it
\* passes refers to storage that was dropped.
C7_NoDanglingPointer ==
    /\ (pc = "init" => \A i \in 1..Len(instance_ext) : instance_ext[i].storage # "dropped")
    /\ (pc = "create_logical" =>
            \A i \in 1..Len(device_ext) : device_ext[i].storage # "dropped")

\* ------------------------------------------------------------------------
\* Device::new
\* ------------------------------------------------------------------------
Count(l, c) == Cardinality({i \in 1..Len(l) : l[i] = c})
IsDestroy(c) == c \in {"destroy_swapchain", "destroy_surface", "destroy_window",
                       "destroy_device", "destroy_instance"}
Destroys(l) == SelectSeq(l, IsDestroy)
ReleasedOnce(l, create, destroy) == Count(l, destroy) = Count(l, create)

\* C8: every handle Device::new created is released exactly once on every
\* exit path: when Device::new returns an error the instance (and device)
\* it created are already destroyed, and once a Device that was returned
\* has been dropped its handles are destroyed exactly once.
C8_HandlesReleasedOnEveryExit ==
    /\ (pc = "new_returned" /\ result.kind = "Err" =>
            /\ ReleasedOnce(log, "create_instance", "destroy_instance")
            /\ ReleasedOnce(log, "create_device", "destroy_device"))
    /\ (pc = "panicked" /\ result.kind = "Ok" =>
            /\ Count(log, "destroy_instance") = 1
            /\ Count(log, "destroy_device") = 1)

StageOrder == <<"extensions", "instance", "physical", "queue_family", "logical", "loader">>

\* C9: the stages of Device::new run in the order extensions, instance,
\* physical, queue_family, logical, loader; once a stage has failed no
\* later stage runs, Device::new returns that stage's error unchanged, and
\* no Device is returned.
C9_StagesInOrderErrorPropagated ==
    /\ Len(stages) <= Len(StageOrder)
    /\ \A i \in 1..Len(stages) : stages[i] = StageOrder[i]
    /\ (failed.stage # "-" =>
            /\ stages[Len(stages)] = failed.stage
            /\ result.kind = "Err"
            /\ result.err.inner = failed.raised \/ result.err.variant = failed.raised
            /\ pc \in {"new_returned", "panicked"}
            /\ swapchain_loader = "none")

\* ------------------------------------------------------------------------
\* Application loop
\* ------------------------------------------------------------------------
TeardownOrder == <<"destroy_swapchain", "destroy_surface", "destroy_window",
                   "destroy_device", "destroy_instance">>

\* C10: once close-requested has been handled while a WindowView was bound
\* the application is exiting and the destroy calls made are swapchain,
\* surface, window, logical device, instance, in that order, once each.
C10_CloseTearsDownInOrder ==
    event = "CloseRequested" => pc = "exiting" /\ Destroys(log) = TeardownOrder


Before(l, a, b) == \A i, j \in 1..Len(l) : l[i] = a /\ l[j] = b => i < j

\* C11: in every state a WindowView part that is not destroyed (window,
\* surface or swapchain) implies that the logical device and the instance
\* are live, and the Device is destroyed only after the view's window.
C11_ViewNeverOutlivesDevice ==
    /\ (window = "live" \/ surface = "live" \/ swapchain = "live" =>
            logical = "live" /\ instance = "live")
    /\ Before(log, "destroy_window", "destroy_device")
    /\ Before(log, "destroy_window", "destroy_instance")

\* C12: a resume signal makes resumed construct a WindowView exactly when
\* none is bound; a resume while a view is bound makes no create call and
\* leaves the view as it is; so at most one window, surface and swapchain
\* exist at any time, whatever the number of resume signals.
C12_ResumeStep ==
    resumes' = resumes + 1 =>
        IF view = "Some"
        THEN /\ UNCHANGED <<view, window, surface, swapchain, log, pc>>
        ELSE /\ view_result' \in ViewOutcomes
             /\ Len(log') > Len(log) \/ view_result' = "OsError"
             /\ (view' = "Some") = (view_result' = "Ok")
             /\ (view' = "Some" =>
                    SubSeq(log', Len(log) + 1, Len(log')) =
                        <<"create_window", "create_surface", "create_swapchain">>)

C12_AtMostOneView ==
    /\ Count(log, "create_window") - Count(log, "destroy_window") <= 1
    /\ Count(log, "create_surface") <= 1
    /\ Count(log, "create_swapchain") <= 1
    /\ (view = "Some" => Count(log, "create_window") = 1 /\ window = "live")

C12_ResumeBindsOnlyWhenUnbound ==
    []C12_AtMostOneView /\ [][C12_ResumeStep]_vars

\* a second resume has been delivered while the first one's view is bound
C12_Witness ==
    /\ pc = "run_app"
    /\ resumes = 2
    /\ view = "Some"
    /\ Count(log, "create_window") = 1

\* C13: when WindowView::new fails on a resume the application stays in
\* the loop, window-less (view = None), with the Device's handles live, so
\* that a later resume can retry.
C13_ViewFailureIsRecoverable ==
    view_result \notin {"-", "Ok"} =>
        /\ pc = "run_app"
        /\ view = "None"
        /\ logical = "live"
        /\ instance = "live"

\* C14: after a suspend signal received while a WindowView was bound the
\* view is destroyed (window, surface, swapchain), the application is in
\* the loop without a view and the Device's handles are still live.
C14_SuspendUnbindsKeepsDevice ==
    event = "suspended" /\ view_result = "Ok" =>
        /\ pc = "run_app"
        /\ view = "None"
        /\ window = "destroyed"
        /\ surface = "destroyed"
        /\ swapchain = "destroyed"
        /\ logical = "live"
        /\ instance = "live"

\* C15: once Device construction has failed (Device::new returned an
\* error, panicked, or the process died in it) the event loop never runs:
\* no callback is delivered and no window, surface or swapchain is created.
DeviceConstructionFailed == result.kind \in {"Err", "Panic"} \/ pc = "crashed"

C15_NoLoopWithoutDevice ==
    DeviceConstructionFailed =>
        /\ pc # "run_app"
        /\ event = "-"
        /\ resumes = 0
        /\ view_result = "-"
        /\ view = "None"
        /\ window = "none" /\ surface = "none" /\ swapchain = "none"
        /\ \A i \in 1..Len(log) : log[i] \in {"create_instance", "create_device"}

\* App::new has met the error of Device::new and the program has ended
C15_Witness ==
    /\ pc = "panicked"
    /\ result.kind = "Err"
    /\ result.err = NoSuitableDevice
    /\ event = "-"

\* C16: dropping a Device destroys the logical device first and the
\* instance second, each once; the instance is never destroyed while the
\* logical device is live.
C16_DeviceDropOrder ==
    /\ Count(log, "destroy_device") <= 1
    /\ Count(log, "destroy_instance") <= 1
    /\ Count(log, "destroy_device") = Count(log, "destroy_instance")
    /\ \A i \in 1..Len(log) :
            log[i] = "destroy_instance" => i > 1 /\ log[i - 1] = "destroy_device"
    /\ (instance = "destroyed" => logical = "destroyed")

\* a Device that was returned has been dropped
C16_Witness ==
    /\ pc = "panicked"
    /\ result.kind = "Ok"
    /\ Destroys(log) = <<"destroy_device", "destroy_instance">>
    /\ logical = "destroyed"
    /\ instance = "destroyed"


\* C17: find_queue_family_index returns the index of the first family
\* whose flags include GRAPHICS; when no family includes GRAPHICS
\* Device::new fails with UnableToFindQueueFamily and never builds a
\* logical device request; the index create_logical passes is the index
\* found.
HasGraphics(fams) == \E k \in 1..Len(fams) : GRAPHICS \in fams[k]

C17_FirstGraphicsFamily ==
    /\ (pc = "create_logical" =>
            /\ queue_family_index.some
            /\ queue_family_index.val + 1 \in 1..Len(families)
            /\ GRAPHICS \in families[queue_family_index.val + 1]
            /\ \A k \in 1..queue_family_index.val : GRAPHICS \notin families[k])
    /\ (stages # <<>> /\ stages[Len(stages)] = "queue_family" /\ pc # "panicked" =>
            /\ HasGraphics(families) = (pc = "create_logical")
            /\ HasGraphics(families) = (failed.stage = "-")
            /\ (pc = "new_returned" => result.kind = "Err"
                                       /\ result.err = UnableToFindQueueFamily))
    /\ (failed.stage = "queue_family" =>
            /\ pc \in {"new_returned", "crashed", "panicked"}
            /\ ~LogicalRequested
            /\ logical = "none"
            /\ "create_device" \notin Range(log))
    /\ (pc = "swapchain_loader" =>
            /\ Len(device_request.queue_create_infos) = 1
            /\ device_request.queue_create_infos[1].queue_family_index
                    = queue_family_index.val)

\* the first family has no GRAPHICS flag, the second has: index 1 is found
\* and passed on
C17_Witness ==
    /\ pc = "create_logical"
    /\ families = <<{TRANSFER}, {GRAPHICS, TRANSFER}>>
    /\ queue_family_index = Some(1)

\* C18: the request create_logical builds carries exactly one queue-create
\* entry, for the selected graphics family, with queue count 1.
C18_OneQueueRequested ==
    pc = "swapchain_loader" =>
        /\ Len(device_request.queue_create_infos) = 1
        /\ device_request.queue_create_infos[1].queue_family_index = queue_family_index.val
        /\ device_request.queue_create_infos[1].queue_count = 1

\* C19: devices of other types are skipped without effect: pick_physical
\* returns the device it returns on the enumeration with those devices
\* removed, and never a device of a skipped type, wherever they stand.
RECURSIVE KeptFrom(_, _)
KeptFrom(devs, i) ==
    IF i > Len(devs) THEN <<>>
    ELSE IF devs[i] \in Supported THEN <<i>> \o KeptFrom(devs, i + 1)
         ELSE KeptFrom(devs, i + 1)
Kept(devs) == KeptFrom(devs, 1)
Filtered(devs) == [k \in 1..Len(Kept(devs)) |-> devs[Kept(devs)[k]]]

C19_SkippedDevicesHaveNoEffect ==
    PickReturned =>
        LET onFiltered == pick_physical(Filtered(all))
        IN  /\ result.kind = onFiltered.kind
            /\ result.err = onFiltered.err
            /\ (result.kind = "Ok" =>
                    /\ result.val = Kept(all)[onFiltered.val]
                    /\ PickedType \in Supported)

\* a supported device between two skipped ones is the one returned
C19_Witness ==
    /\ PickReturned
    /\ all = <<CPU, INTEGRATED_GPU, CPU>>
    /\ result.kind = "Ok"
    /\ result.val = 2

\* C20: when a caller-supplied extension name holds an interior NUL,
\* extension negotiation makes Device::new return an error value (the
\* NulError, once the platform query has succeeded) rather than abort, and
\* neither an instance nor a logical device is created.
CallerGaveNulName == NulName \in Range(extensions_instance) \cup Range(extensions_device)

C20_NulNameIsAnError ==
    CallerGaveNulName /\ stages # <<>> =>
        /\ result.kind = "Err"
        /\ (instance_required # <<>> => result.err.variant = "NulError")
        /\ instance = "none"
        /\ logical = "none"

====
